---- MODULE Spec2Model ----
(***************************************************************************)
(* Model of the anime-poc fetch-and-normalize pipeline.                    *)
(*                                                                         *)
(*   fetchJikan            src/src/anime-poc.test.ts:560-566               *)
(*   getFullAnimeDetails   src/src/anime-poc.test.ts:568-668               *)
(*   TestRunner, runTest   src/src/anime-poc.test.ts:15-78, 361-370, 675  *)
(*   language selection    src/docs/js/main.js                             *)
(*                                                                         *)
(* JavaScript values are tagged records: [t |-> tag, v |-> payload].       *)
(* A raw JSON object is a function from its field names to values, so a    *)
(* field that the upstream omits is a name outside the function's domain  *)
(* and reading it gives undefined, as in JavaScript.                       *)
(***************************************************************************)
EXTENDS Integers, Sequences, FiniteSets, TLC

\* ------------------------------------------------------------------------
\* Bounds of the model
\* ------------------------------------------------------------------------

\* Granularity, in ms, of the passage of time.
TickMs == 500

\* Longest raw list (producers, licensors, studios, openings, endings).
MaxList == 2

\* Longest raw staff payload and longest raw characters payload.
MaxEntries == 2

\* ------------------------------------------------------------------------
\* Program constants
\* ------------------------------------------------------------------------

DELAY_MS == 1000

FRIEREN_ID == 52991

\* ------------------------------------------------------------------------
\* The state of the program
\* ------------------------------------------------------------------------

VARIABLES
    upstream,   \* the data the upstream holds for each resource (unchanged)
    mode,       \* idle | awaiting | sleeping | returned | rejected, per invocation
    pc,         \* the step of Program an invocation is at
    malIds,     \* the malId argument of each invocation
    raw,        \* rawAnime, rawChars, rawStaff of each invocation
    inflight,   \* the requests that have no response yet
    sleepLeft,  \* ms left on the timer of a sleeping invocation
    sinceResp,  \* ms since the invocation's last response, up to DELAY_MS
    log,        \* history: the requests, responses and delays of each invocation
    gaps,       \* history: sinceResp at each request other than the first
    result,     \* the Title an invocation returned
    error       \* the error an invocation rejected with

vars == <<upstream, mode, pc, malIds, raw, inflight, sleepLeft, sinceResp,
          log, gaps, result, error>>

\* ------------------------------------------------------------------------
\* JavaScript values
\* ------------------------------------------------------------------------

Undefined == [t |-> "undefined"]

Null == [t |-> "null"]

\* The outcome of an expression that raised a TypeError.
Throw == [t |-> "throw"]

\* No value: the promise has not been fulfilled.
NoResult == [t |-> "pending"]

Str(s) == [t |-> "string", v |-> s]

Num(n) == [t |-> "number", v |-> n]

Arr(s) == [t |-> "array", v |-> s]

Obj(f) == [t |-> "object", v |-> f]

IsNullish(x) == x.t \in {"undefined", "null"}

\* ToBoolean(x) = false, for the values of this model.
Falsy(x) ==
    \/ IsNullish(x)
    \/ (x.t = "string" /\ x.v = "")
    \/ (x.t = "number" /\ x.v = 0)

\* o.f : a TypeError on undefined and null, undefined for a missing field.
Prop(o, f) ==
    IF o.t = "throw" \/ IsNullish(o) THEN Throw
    ELSE IF o.t = "object"
         THEN IF f \in DOMAIN o.v THEN o.v[f] ELSE Undefined
         ELSE Undefined

\* o?.f
OptProp(o, f) ==
    IF o.t = "throw" THEN Throw
    ELSE IF IsNullish(o) THEN Undefined
    ELSE Prop(o, f)

\* a || b
OrElse(a, b) ==
    IF a.t = "throw" THEN Throw
    ELSE IF Falsy(a) THEN b ELSE a

\* arr.map(F) : a TypeError when arr is not an array or F raises one.
ArrayMap(arr, F(_)) ==
    IF arr.t # "array" THEN Throw
    ELSE LET r == [k \in 1..Len(arr.v) |-> F(arr.v[k])]
         IN  IF \E k \in 1..Len(r) : r[k] = Throw THEN Throw ELSE Arr(r)

\* The concatenation of a sequence of arrays.
RECURSIVE Flatten(_)
Flatten(ss) ==
    IF ss = <<>> THEN <<>> ELSE Head(ss).v \o Flatten(Tail(ss))

\* arr.flatMap(F), F returning an array.
ArrayFlatMap(arr, F(_)) ==
    LET m == ArrayMap(arr, F)
    IN  IF m = Throw THEN Throw ELSE Arr(Flatten(m.v))

\* [...a, ...b, ...c]
Spread3(a, b, c) ==
    IF Throw \in {a, b, c} THEN Throw ELSE Arr(a.v \o b.v \o c.v)

\* [...a, ...b]
Spread2(a, b) ==
    IF Throw \in {a, b} THEN Throw ELSE Arr(a.v \o b.v)

\* arr.filter(P)
ArrayFilter(arr, P(_)) ==
    IF arr.t # "array" THEN Throw ELSE Arr(SelectSeq(arr.v, P))

\* The instants (days since the epoch) of the date strings the model uses.
IsoInstants ==
    ("2023-09-29T00:00:00+00:00" :> 19629) @@ ("2024-03-22T00:00:00+00:00" :> 19804)

\* new Date(x) : the parsed instant, or an invalid date.
NewDate(x) ==
    IF x.t = "string" /\ x.v \in DOMAIN IsoInstants
    THEN [t |-> "date", v |-> IsoInstants[x.v]]
    ELSE [t |-> "invalid-date"]

\* ------------------------------------------------------------------------
\* The mapping of getFullAnimeDetails
\* ------------------------------------------------------------------------

\* p => ({ company: { id: p.mal_id, name: p.name }, type: tag })
MkCompany(p, tag) ==
    LET id   == Prop(p, "mal_id")
        name == Prop(p, "name")
    IN  IF Throw \in {id, name} THEN Throw
        ELSE [company |-> [id |-> id, name |-> name], type |-> tag]

\* A fault: the studios spread before the licensors.
MapCompaniesStudiosFirst(rawAnime) ==
    Spread3(
        ArrayMap(Prop(rawAnime, "producers"), LAMBDA p : MkCompany(p, "Producer")),
        ArrayMap(Prop(rawAnime, "studios"), LAMBDA p : MkCompany(p, "Studio")),
        ArrayMap(Prop(rawAnime, "licensors"), LAMBDA p : MkCompany(p, "Licensor")))

\* Map Companies
MapCompanies(rawAnime) ==
    Spread3(
        ArrayMap(Prop(rawAnime, "producers"), LAMBDA p : MkCompany(p, "Producer")),
        ArrayMap(Prop(rawAnime, "licensors"), LAMBDA p : MkCompany(p, "Licensor")),
        ArrayMap(Prop(rawAnime, "studios"), LAMBDA p : MkCompany(p, "Studio")))

\* t => ({ type: tag, text: t })
MkTheme(x, tag) == [type |-> tag, text |-> x]

\* A fault: the theme lists read without their guards.
MapThemesUnguarded(rawAnime) ==
    Spread2(
        ArrayMap(Prop(Prop(rawAnime, "theme"), "openings"), LAMBDA x : MkTheme(x, "Opening")),
        ArrayMap(Prop(Prop(rawAnime, "theme"), "endings"), LAMBDA x : MkTheme(x, "Ending")))

\* Map Themes
MapThemes(rawAnime) ==
    Spread2(
        ArrayMap(OrElse(OptProp(Prop(rawAnime, "theme"), "openings"), Arr(<<>>)),
                 LAMBDA x : MkTheme(x, "Opening")),
        ArrayMap(OrElse(OptProp(Prop(rawAnime, "theme"), "endings"), Arr(<<>>)),
                 LAMBDA x : MkTheme(x, "Ending")))

\* entry => ({ relationType: rel.relation, relatedAnimeId: entry.mal_id, ... })
MkRelated(rel, entry) ==
    LET kind == Prop(rel, "relation")
        id   == Prop(entry, "mal_id")
        name == Prop(entry, "name")
    IN  IF Throw \in {kind, id, name} THEN Throw
        ELSE [relationType |-> kind, relatedAnimeId |-> id, relatedAnimeTitle |-> name]

\* e => e.type === 'anime'
IsAnimeEntry(e) == Prop(e, "type") = Str("anime")

\* A fault: the entries of a group mapped without the filter on their type.
MapRelationsUnfiltered(rawAnime) ==
    LET rels == Prop(rawAnime, "relations")
    IN  IF rels.t = "throw" THEN Throw
        ELSE IF IsNullish(rels) THEN Arr(<<>>)
        ELSE ArrayFlatMap(rels, LAMBDA rel :
                ArrayMap(Prop(rel, "entry"), LAMBDA entry : MkRelated(rel, entry)))

\* Map Relations
MapRelations(rawAnime) ==
    LET rels == Prop(rawAnime, "relations")
    IN  IF rels.t = "throw" THEN Throw
        ELSE IF IsNullish(rels) THEN Arr(<<>>)
        ELSE OrElse(
                ArrayFlatMap(rels, LAMBDA rel :
                    ArrayMap(ArrayFilter(Prop(rel, "entry"), IsAnimeEntry),
                             LAMBDA entry : MkRelated(rel, entry))),
                Arr(<<>>))

\* x.images?.jpg?.image_url || null
ImageOf(x) ==
    OrElse(OptProp(OptProp(Prop(x, "images"), "jpg"), "image_url"), Null)

\* { id: x.mal_id, name: x.name, image: ... } of a person or a character
MkPerson(x) ==
    LET id    == Prop(x, "mal_id")
        name  == Prop(x, "name")
        image == ImageOf(x)
    IN  IF Throw \in {id, name, image} THEN Throw
        ELSE [id |-> id, name |-> name, image |-> image]

\* va => ({ language: va.language, person: {...} })
MkVoiceActor(va) ==
    LET language == Prop(va, "language")
        person   == MkPerson(Prop(va, "person"))
    IN  IF language = Throw \/ person = Throw THEN Throw
        ELSE [language |-> language, person |-> person]

\* c => ({ role: c.role, character: {...}, voiceActors: c.voice_actors.map(...) })
MkCharacter(c) ==
    LET role        == Prop(c, "role")
        character   == MkPerson(Prop(c, "character"))
        voiceActors == ArrayMap(Prop(c, "voice_actors"), MkVoiceActor)
    IN  IF role = Throw \/ character = Throw \/ voiceActors = Throw THEN Throw
        ELSE [role |-> role, character |-> character, voiceActors |-> voiceActors]

\* Map Characters & Voice Actors
MapCharacters(rawChars) == ArrayMap(rawChars, MkCharacter)

\* role => ({ role: role, person: {...} })
MkStaff(s, role) ==
    LET person == MkPerson(Prop(s, "person"))
    IN  IF person = Throw THEN Throw ELSE [role |-> role, person |-> person]

\* A fault: one entry per person, with the first position only.
MapStaffFirstPosition(rawStaff) ==
    ArrayMap(rawStaff, LAMBDA s :
        LET ps == Prop(s, "positions")
        IN  IF ps.t # "array" THEN Throw
            ELSE MkStaff(s, IF Len(ps.v) > 0 THEN ps.v[1] ELSE Undefined))

\* A fault: the staff list kept in a module-level array that every call
\* appends to.
MapStaffShared(rawStaff) ==
    LET own  == ArrayFlatMap(rawStaff, LAMBDA s :
                    ArrayMap(Prop(s, "positions"), LAMBDA role : MkStaff(s, role)))
        kept == Flatten([k \in 1..Cardinality({i \in DOMAIN result : result[i] # NoResult}) |->
                            own])
    IN  IF own = Throw THEN Throw ELSE Arr(kept \o own.v)

\* Map Staff: rawStaff.flatMap(s => s.positions.map(role => ...))
MapStaff(rawStaff) ==
    ArrayFlatMap(rawStaff, LAMBDA s :
        ArrayMap(Prop(s, "positions"), LAMBDA role : MkStaff(s, role)))

\* rawAnime.aired?.from ? new Date(rawAnime.aired.from) : null
DateOrNull(rawAnime, f) ==
    LET x == OptProp(Prop(rawAnime, "aired"), f)
    IN  IF x.t = "throw" THEN Throw
        ELSE IF Falsy(x) THEN Null
        ELSE NewDate(Prop(Prop(rawAnime, "aired"), f))

\* rawAnime.images?.jpg?.large_image_url || rawAnime.images?.jpg?.image_url
MainPicture(rawAnime) ==
    OrElse(OptProp(OptProp(Prop(rawAnime, "images"), "jpg"), "large_image_url"),
           OptProp(OptProp(Prop(rawAnime, "images"), "jpg"), "image_url"))

\* stats: { score: rawAnime.score, ranked: rawAnime.rank, ... }
MapStats(rawAnime) ==
    [score      |-> Prop(rawAnime, "score"),
     ranked     |-> Prop(rawAnime, "rank"),
     popularity |-> Prop(rawAnime, "popularity"),
     members    |-> Prop(rawAnime, "members"),
     favorites  |-> Prop(rawAnime, "favorites")]

\* A fault: the id taken from the argument.
TitleIdFromArgument(rawAnime, malId) ==
    IF rawAnime.t = "throw" \/ IsNullish(rawAnime) THEN Throw ELSE Num(malId)

\* id: rawAnime.mal_id
TitleId(rawAnime, malId) == Prop(rawAnime, "mal_id")

\* The object literal that getFullAnimeDetails returns.
BuildAnime(rawAnime, rawChars, rawStaff, malId) ==
    [id            |-> TitleId(rawAnime, malId),
     title         |-> Prop(rawAnime, "title"),
     titleEnglish  |-> Prop(rawAnime, "title_english"),
     titleJapanese |-> Prop(rawAnime, "title_japanese"),
     type          |-> Prop(rawAnime, "type"),
     status        |-> Prop(rawAnime, "status"),
     episodes      |-> Prop(rawAnime, "episodes"),
     duration      |-> Prop(rawAnime, "duration"),
     rating        |-> Prop(rawAnime, "rating"),
     source        |-> Prop(rawAnime, "source"),
     airedString   |-> OptProp(Prop(rawAnime, "aired"), "string"),
     airedFrom     |-> DateOrNull(rawAnime, "from"),
     airedTo       |-> DateOrNull(rawAnime, "to"),
     mainPicture   |-> MainPicture(rawAnime),
     synopsis      |-> Prop(rawAnime, "synopsis"),
     background    |-> Prop(rawAnime, "background"),
     stats         |-> MapStats(rawAnime),
     genres        |-> ArrayMap(Prop(rawAnime, "genres"),
                                LAMBDA g : LET id   == Prop(g, "mal_id")
                                               name == Prop(g, "name")
                                           IN  IF Throw \in {id, name} THEN Throw
                                               ELSE [id |-> id, name |-> name]),
     companies      |-> MapCompanies(rawAnime),
     themes         |-> MapThemes(rawAnime),
     relatedEntries |-> MapRelations(rawAnime),
     characters     |-> MapCharacters(rawChars),
     staff          |-> MapStaff(rawStaff)]

\* Whether evaluating the mapping raises a TypeError.
MappingThrows(rawAnime, rawChars, rawStaff, malId) ==
    LET a == BuildAnime(rawAnime, rawChars, rawStaff, malId)
    IN  \/ \E f \in DOMAIN a : a[f] = Throw
        \/ \E f \in DOMAIN a.stats : a.stats[f] = Throw

\* ------------------------------------------------------------------------
\* The pipeline: fetchJikan and getFullAnimeDetails
\* ------------------------------------------------------------------------

\* The two callers of getFullAnimeDetails: runTest and the integration test.
Invocations == {"runTest", "integrationTest"}

\* The three resources of a title.
Kinds == {"full", "characters", "staff"}

\* The HTTP statuses the upstream answers with, and their reason phrases.
StatusText ==
    (200 :> "OK") @@ (429 :> "Too Many Requests") @@ (500 :> "Internal Server Error")

Statuses == DOMAIN StatusText

\* A fault: only a server error counts as a failure.
OkBelow500(status) == status < 500

\* res.ok
Ok(status) == status >= 200 /\ status <= 299

\* new Error(`Jikan API Error ${res.status}: ${res.statusText}`)
HttpError(status, text) ==
    [name |-> "Error", message |-> <<"Jikan API Error ", status, ": ", text>>]

\* The TypeError of a property access on undefined or null.
TypeError == [name |-> "TypeError", message |-> <<>>]

NoError == [name |-> "none", message |-> <<>>]

\* A fault: the staff fetch issued before the characters fetch.
ProgramStaffFirst ==
    << [op |-> "fetch", kind |-> "full",       ms |-> 0],
       [op |-> "sleep", kind |-> "",           ms |-> DELAY_MS],
       [op |-> "fetch", kind |-> "staff",      ms |-> 0],
       [op |-> "sleep", kind |-> "",           ms |-> DELAY_MS],
       [op |-> "fetch", kind |-> "characters", ms |-> 0],
       [op |-> "return", kind |-> "",          ms |-> 0] >>

\* A fault: the delays cut to half of DELAY_MS.
ProgramShortDelay ==
    << [op |-> "fetch", kind |-> "full",       ms |-> 0],
       [op |-> "sleep", kind |-> "",           ms |-> DELAY_MS \div 2],
       [op |-> "fetch", kind |-> "characters", ms |-> 0],
       [op |-> "sleep", kind |-> "",           ms |-> DELAY_MS \div 2],
       [op |-> "fetch", kind |-> "staff",      ms |-> 0],
       [op |-> "return", kind |-> "",          ms |-> 0] >>

\* A fault: no delay between the characters fetch and the staff fetch.
ProgramOneSleep ==
    << [op |-> "fetch", kind |-> "full",       ms |-> 0],
       [op |-> "sleep", kind |-> "",           ms |-> DELAY_MS],
       [op |-> "fetch", kind |-> "characters", ms |-> 0],
       [op |-> "fetch", kind |-> "staff",      ms |-> 0],
       [op |-> "return", kind |-> "",          ms |-> 0] >>

\* The awaits of getFullAnimeDetails, in program order.
Program ==
    << [op |-> "fetch", kind |-> "full",       ms |-> 0],
       [op |-> "sleep", kind |-> "",           ms |-> DELAY_MS],
       [op |-> "fetch", kind |-> "characters", ms |-> 0],
       [op |-> "sleep", kind |-> "",           ms |-> DELAY_MS],
       [op |-> "fetch", kind |-> "staff",      ms |-> 0],
       [op |-> "return", kind |-> "",          ms |-> 0] >>

\* An entry of an invocation's history.
Ev(ev, kind, n) == [ev |-> ev, kind |-> kind, n |-> n]

NoRaw == [k \in Kinds |-> Undefined]

InitWith(upstreams, callers) ==
    /\ upstream \in upstreams
    /\ mode = [i \in Invocations |-> IF i \in callers THEN "idle" ELSE "unused"]
    /\ pc = [i \in Invocations |-> 0]
    /\ malIds = [i \in Invocations |-> FRIEREN_ID]
    /\ raw = [i \in Invocations |-> NoRaw]
    /\ inflight = {}
    /\ sleepLeft = [i \in Invocations |-> 0]
    /\ sinceResp = [i \in Invocations |-> 0]
    /\ log = [i \in Invocations |-> <<>>]
    /\ gaps = [i \in Invocations |-> <<>>]
    /\ result = [i \in Invocations |-> NoResult]
    /\ error = [i \in Invocations |-> NoError]

\* Invocation i runs from step k of Program to its next await, its requests
\* in flight being infl, its history lg and its locals rw; elapsed is the
\* time since its last response.
Begin(i, k, lg, infl, rw, elapsed) ==
    LET step == Program[k]
    IN  /\ pc' = [pc EXCEPT ![i] = k]
        /\ raw' = [raw EXCEPT ![i] = rw]
        /\ CASE step.op = "fetch" ->
                  /\ mode' = [mode EXCEPT ![i] = "awaiting"]
                  /\ log' = [log EXCEPT ![i] = Append(lg, Ev("request", step.kind, malIds[i]))]
                  /\ inflight' = infl \cup {[inv |-> i, kind |-> step.kind, id |-> malIds[i]]}
                  /\ gaps' = [gaps EXCEPT ![i] = IF k = 1 THEN @ ELSE Append(@, elapsed)]
                  /\ UNCHANGED <<sleepLeft, result, error>>
             [] step.op = "sleep" ->
                  /\ mode' = [mode EXCEPT ![i] = "sleeping"]
                  /\ sleepLeft' = [sleepLeft EXCEPT ![i] = step.ms]
                  /\ log' = [log EXCEPT ![i] = Append(lg, Ev("sleep", "", step.ms))]
                  /\ inflight' = infl
                  /\ UNCHANGED <<gaps, result, error>>
             [] step.op = "return" ->
                  /\ log' = [log EXCEPT ![i] = lg]
                  /\ inflight' = infl
                  /\ IF MappingThrows(rw["full"], rw["characters"], rw["staff"], malIds[i])
                     THEN /\ mode' = [mode EXCEPT ![i] = "rejected"]
                          /\ error' = [error EXCEPT ![i] = TypeError]
                          /\ UNCHANGED result
                     ELSE /\ mode' = [mode EXCEPT ![i] = "returned"]
                          /\ result' = [result EXCEPT ![i] =
                                BuildAnime(rw["full"], rw["characters"], rw["staff"], malIds[i])]
                          /\ UNCHANGED error
                  /\ UNCHANGED <<sleepLeft, gaps>>

\* A caller invokes getFullAnimeDetails(malId).
Invoke(i) ==
    /\ mode[i] = "idle"
    /\ Begin(i, 1, log[i], inflight, raw[i], sinceResp[i])
    /\ UNCHANGED <<upstream, malIds, sinceResp>>

\* The response to the request of invocation i arrives: fetchJikan throws on
\* a non-success status and returns json.data otherwise.
Respond(i) ==
    /\ mode[i] = "awaiting"
    /\ \E r \in inflight, status \in Statuses :
          /\ r.inv = i
          /\ LET lg == Append(log[i], Ev("response", r.kind, status))
             IN  IF ~Ok(status)
                 THEN /\ mode' = [mode EXCEPT ![i] = "rejected"]
                      /\ error' = [error EXCEPT ![i] = HttpError(status, StatusText[status])]
                      /\ log' = [log EXCEPT ![i] = lg]
                      /\ inflight' = inflight \ {r}
                      /\ UNCHANGED <<pc, raw, sleepLeft, gaps, result>>
                 ELSE Begin(i, pc[i] + 1, lg, inflight \ {r},
                            [raw[i] EXCEPT ![r.kind] = upstream[r.kind]], 0)
    /\ sinceResp' = [sinceResp EXCEPT ![i] = 0]
    /\ UNCHANGED <<upstream, malIds>>

\* The timer of a sleeping invocation has run out and its callback runs.
Wake(i) ==
    /\ mode[i] = "sleeping"
    /\ sleepLeft[i] = 0
    /\ Begin(i, pc[i] + 1, log[i], inflight, raw[i], sinceResp[i])
    /\ UNCHANGED <<upstream, malIds, sinceResp>>

Min(a, b) == IF a < b THEN a ELSE b

Max(a, b) == IF a > b THEN a ELSE b

\* Time passes and no timer advances.
TickStoppedTimers ==
    /\ \E i \in Invocations : mode[i] \in {"awaiting", "sleeping"}
    /\ sinceResp' = [i \in Invocations |->
                        IF mode[i] \in {"awaiting", "sleeping"} /\ pc[i] > 1
                        THEN Min(DELAY_MS, sinceResp[i] + TickMs)
                        ELSE sinceResp[i]]
    /\ UNCHANGED <<upstream, mode, pc, malIds, raw, inflight, sleepLeft, log, gaps,
                   result, error>>

\* TickMs of time pass.
Tick ==
    /\ \E i \in Invocations : mode[i] \in {"awaiting", "sleeping"}
    /\ sleepLeft' = [i \in Invocations |-> Max(0, sleepLeft[i] - TickMs)]
    /\ sinceResp' = [i \in Invocations |->
                        IF mode[i] \in {"awaiting", "sleeping"} /\ pc[i] > 1
                        THEN Min(DELAY_MS, sinceResp[i] + TickMs)
                        ELSE sinceResp[i]]
    /\ UNCHANGED <<upstream, mode, pc, malIds, raw, inflight, log, gaps, result, error>>

\* ------------------------------------------------------------------------
\* The upstream payloads the model draws from
\* ------------------------------------------------------------------------

\* The sequences over S of length at most n.
SeqsUpTo(S, n) == UNION {[1..k -> S] : k \in 0..n}

\* The object o without the fields in S.
Without(o, S) == Obj([f \in DOMAIN o.v \ S |-> o.v[f]])

\* The object o with field f set to val; undefined drops the field, as JSON
\* has no undefined.
Put(o, f, val) ==
    IF val = Undefined THEN Without(o, {f})
    ELSE Obj([g \in DOMAIN o.v \cup {f} |-> IF g = f THEN val ELSE o.v[g]])

Meta(id, name, type) == Obj([mal_id |-> Num(id), name |-> Str(name), type |-> Str(type)])

MetaPool == {Meta(11, "Madhouse", "anime"), Meta(17, "Aniplex", "anime")}

BaseAired ==
    Obj([string |-> Str("Sep 29, 2023 to Mar 22, 2024"),
         from   |-> Str("2023-09-29T00:00:00+00:00"),
         to     |-> Str("2024-03-22T00:00:00+00:00")])

BaseJpg == Obj([image_url |-> Str("138006.jpg"), large_image_url |-> Str("138006l.jpg")])

BaseAnime ==
    Obj([mal_id         |-> Num(FRIEREN_ID),
         title          |-> Str("Sousou no Frieren"),
         title_english  |-> Str("Frieren: Beyond Journey's End"),
         title_japanese |-> Str("Sousou no Furiiren"),
         images         |-> Obj([jpg |-> BaseJpg]),
         type           |-> Str("TV"),
         status         |-> Str("Finished Airing"),
         episodes       |-> Num(28),
         duration       |-> Str("24 min per ep"),
         rating         |-> Str("PG-13 - Teens 13 or older"),
         source         |-> Str("Manga"),
         synopsis       |-> Str("During their decade-long quest..."),
         background     |-> Str("Sousou no Frieren was released..."),
         aired          |-> BaseAired,
         score          |-> Num(9),
         rank           |-> Num(1),
         popularity     |-> Num(123),
         members        |-> Num(500000),
         favorites      |-> Num(50000),
         genres         |-> Arr(<<Meta(2, "Adventure", "anime"), Meta(10, "Fantasy", "anime")>>),
         theme          |-> Obj([openings |-> Arr(<<Str("OP1")>>), endings |-> Arr(<<Str("ED1")>>)]),
         relations      |-> Arr(<<>>),
         producers      |-> Arr(<<Meta(17, "Aniplex", "anime")>>),
         licensors      |-> Arr(<<>>),
         studios        |-> Arr(<<Meta(11, "Madhouse", "anime")>>)])

\* The optional scalar fields at the top level of the metadata payload.
TopScalars ==
    {"title_english", "title_japanese", "type", "status", "episodes", "duration",
     "rating", "source", "synopsis", "background", "images", "score", "rank",
     "popularity", "members", "favorites"}

\* One optional scalar missing or null, and all of them missing.
ScalarAnimes ==
    {Without(BaseAnime, {f}) : f \in TopScalars}
    \cup {Put(BaseAnime, f, Null) : f \in TopScalars}
    \cup {Without(BaseAnime, TopScalars \cup {"aired"})}

AiredAnimes ==
    {Put(BaseAnime, "aired", Without(BaseAired, S)) : S \in SUBSET {"string", "from", "to"}}
    \cup {Put(BaseAnime, "aired", x) : x \in {Undefined, Null}}
    \cup {Put(BaseAnime, "aired", Put(BaseAired, "from", x)) :
             x \in {Null, Str(""), Str("Not available")}}

ImagesAnimes ==
    {Put(BaseAnime, "images", x) :
        x \in {Obj([jpg |-> Without(BaseJpg, S)]) : S \in SUBSET {"image_url", "large_image_url"}}
              \cup {Without(Obj([jpg |-> BaseJpg]), {"jpg"}), Obj([jpg |-> Null])}}

\* A raw list field: missing, or an array of at most MaxList entries.
ListsOver(S) == {Undefined} \cup {Arr(q) : q \in SeqsUpTo(S, MaxList)}

CompaniesAnimes ==
    {Put(Put(Put(BaseAnime, "producers", p), "licensors", l), "studios", st) :
        p \in {Arr(q) : q \in SeqsUpTo(MetaPool, MaxList)},
        l \in {Arr(q) : q \in SeqsUpTo(MetaPool, MaxList)},
        st \in {Arr(q) : q \in SeqsUpTo(MetaPool, MaxList)}}
    \cup {Without(BaseAnime, {f}) : f \in {"producers", "licensors", "studios"}}

ThemeTexts == {Str("OP/ED 1"), Str("OP/ED 2")}

ThemesAnimes ==
    {Put(BaseAnime, "theme", x) : x \in {Undefined, Null}}
    \cup {Put(BaseAnime, "theme",
              Put(Put(Obj([openings |-> Null]), "openings", o), "endings", e)) :
             o \in ListsOver(ThemeTexts), e \in ListsOver(ThemeTexts)}

GenresAnimes ==
    {Put(BaseAnime, "genres", g) : g \in ListsOver({Meta(2, "Adventure", "anime")})}

\* A relation group.
Relation(label, entries) == Obj([relation |-> Str(label), entry |-> Arr(entries)])

\* The entries a relation group draws from: an anime and a manga.
RelatedPool ==
    {Meta(59978, "Sousou no Frieren 2nd Season", "anime"),
     Meta(126287, "Sousou no Frieren", "manga")}

\* The relation groups: a label with at most MaxList entries.
RelationGroups ==
    {Relation(label, q) : label \in {"Sequel", "Adaptation"},
                          q \in SeqsUpTo(RelatedPool, MaxList)}

\* The relations field: missing, null, or a list of at most two groups.
RelationsAnimes ==
    {Put(BaseAnime, "relations", x) :
        x \in {Undefined, Null}
              \cup {Arr(<<g>>) : g \in RelationGroups}
              \cup {Arr(<<g, h>>) : g, h \in RelationGroups}}

\* The metadata payload whose mal_id is not the id asked for.
IdAnimes == {BaseAnime, Put(BaseAnime, "mal_id", Num(1))}

RawAnimes ==
    ScalarAnimes \cup AiredAnimes \cup ImagesAnimes \cup CompaniesAnimes
    \cup ThemesAnimes \cup GenresAnimes \cup RelationsAnimes \cup IdAnimes

\* A raw person or character, with and without images.
Who(id, name, url) ==
    Put(Obj([mal_id |-> Num(id), name |-> Str(name)]), "images",
        IF url = "" THEN Undefined ELSE Obj([jpg |-> Obj([image_url |-> Str(url)])]))

VoiceActors ==
    <<Obj([person |-> Who(1, "Tanezaki, Atsumi", "tanezaki.jpg"), language |-> Str("Japanese")]),
      Obj([person |-> Who(2, "Wilson, Mallorie", ""), language |-> Str("English")])>>

RawCharEntries ==
    {Put(Obj([character |-> c[1], role |-> Str(c[2])]), "voice_actors", va) :
        c \in {<<Who(1, "Frieren", "frieren.jpg"), "Main">>, <<Who(2, "Himmel", ""), "Supporting">>},
        va \in {Undefined, Arr(<<>>), Arr(SubSeq(VoiceActors, 1, 1)), Arr(VoiceActors)}}

\* The characters payloads: json.data missing, or an array of entries.
RawCharsSet == {Undefined} \cup {Arr(q) : q \in SeqsUpTo(RawCharEntries, MaxEntries)}

BaseChars == Arr(<<Obj([character |-> Who(1, "Frieren", "frieren.jpg"), role |-> Str("Main"),
                        voice_actors |-> Arr(VoiceActors)])>>)

PositionLists ==
    {Undefined, Arr(<<>>), Arr(<<Str("Music")>>), Arr(<<Str("Director")>>),
     Arr(<<Str("Music"), Str("Theme Song Arrangement")>>),
     Arr(<<Str("Director"), Str("Music")>>)}

RawStaffEntries ==
    {Put(Obj([person |-> p]), "positions", ps) :
        p \in {Who(1, "Evan Call", "evan.jpg"), Who(2, "Saitou, Keiichirou", "")},
        ps \in PositionLists}

\* The staff payloads: json.data missing, or an array of entries.
RawStaffSet == {Undefined} \cup {Arr(q) : q \in SeqsUpTo(RawStaffEntries, MaxEntries)}

BaseStaff ==
    Arr(<<Obj([person |-> Who(1, "Evan Call", "evan.jpg"),
               positions |-> Arr(<<Str("Music"), Str("Theme Song Arrangement")>>)])>>)

Upstream(a, c, s) == [full |-> a, characters |-> c, staff |-> s]

\* The upstream data of the mapping's specification.
MapUpstreams ==
    {Upstream(a, BaseChars, BaseStaff) : a \in RawAnimes}
    \cup {Upstream(a, c, BaseStaff) : a \in IdAnimes, c \in RawCharsSet}
    \cup {Upstream(a, BaseChars, s) : a \in IdAnimes, s \in RawStaffSet}

\* The upstream data of the pipeline's specification.
PipelineUpstreams ==
    {Upstream(a, BaseChars, s) : a \in IdAnimes, s \in {BaseStaff, Arr(<<>>), Undefined}}

\* ------------------------------------------------------------------------
\* The localization front-end (docs/js/main.js)
\* ------------------------------------------------------------------------

VARIABLES
    translationKeys,    \* the own keys of the translations object
    urlLang,            \* the 'lang' parameter of the URL, Null when absent
    storedLang,         \* localStorage's 'anime_poc_lang' item, Null when absent
    navigatorLanguage,  \* navigator.language
    currentLang,        \* currentLang of the DOMContentLoaded handler
    selectValue,        \* the value chosen in the language select
    dir,                \* the dir attribute of the document, "" when unset
    uiReady,            \* the DOMContentLoaded handler has run
    boot,               \* history: the URL parameter and the stored item the handler read
    last                \* history: the last change of the select and the state before it

uiVars == <<translationKeys, urlLang, storedLang, navigatorLanguage, currentLang,
            selectValue, dir, uiReady, boot, last>>

\* The translations objects of the model: an object literal keyed by
\* language code, 'en' among its keys.
TranslationSets == {{"en"}, {"en", "pt"}, {"en", "ar"}, {"en", "pt", "ar"}}

\* Property names every object literal inherits from Object.prototype.
ObjectPrototypeNames == {"constructor", "toString", "valueOf", "hasOwnProperty", "__proto__"}

\* The language values a URL, the storage or the select may hold.
LangNames == {"en", "pt", "ar", "fr", "", "constructor", "toString"}

\* The values of navigator.language.
NavigatorLanguages == {"en-US", "pt-BR", "ar", "fr-FR"}

\* translations[name] is truthy: an own key holds a table of texts, an
\* inherited name a function or Object.prototype, any other name undefined.
Translated(name) == name \in translationKeys \/ name \in ObjectPrototypeNames

\* s.slice(0, 2)
Slice2(s) == IF Len(s) <= 2 THEN s ELSE SubSeq(s, 1, 2)

NoBoot == [param |-> Null, stored |-> Null, lang |-> ""]

NoChange == [value |-> "", before |-> <<>>]

\* The page before DOMContentLoaded, for a given environment.
UiInitWith(keySets, names, languages) ==
    /\ translationKeys \in keySets
    /\ urlLang \in {Null} \cup {Str(n) : n \in names}
    /\ storedLang \in {Null} \cup {Str(n) : n \in names}
    /\ navigatorLanguage \in languages
    /\ currentLang = ""
    /\ selectValue = ""
    /\ dir = ""
    /\ uiReady = FALSE
    /\ boot = NoBoot
    /\ last = NoChange

\* setLanguage(lang), but for its assignment to currentLang: the storage, the
\* URL and the direction of the document, unless lang is unsupported.
SetLanguage(lang) ==
    IF ~Translated(lang)
    THEN UNCHANGED <<storedLang, urlLang, dir>>
    ELSE /\ storedLang' = Str(lang)
         /\ urlLang' = Str(lang)
         /\ dir' = IF lang = "ar" THEN "rtl" ELSE "ltr"

\* The language the handler settles on before it calls setLanguage.
InitialLang ==
    IF urlLang # Null /\ urlLang.v # "" /\ Translated(urlLang.v) THEN urlLang.v
    ELSE IF storedLang # Null /\ storedLang.v # "" /\ Translated(storedLang.v) THEN storedLang.v
    ELSE IF Translated(Slice2(navigatorLanguage)) THEN Slice2(navigatorLanguage)
    ELSE "en"

\* The DOMContentLoaded handler.
DomContentLoaded ==
    /\ ~uiReady
    /\ uiReady' = TRUE
    /\ currentLang' = InitialLang
    /\ SetLanguage(InitialLang)
    /\ selectValue' = InitialLang
    /\ boot' = [param |-> urlLang, stored |-> storedLang, lang |-> InitialLang]
    /\ UNCHANGED <<translationKeys, navigatorLanguage, last>>

\* The change handler of the language select, the value chosen being v.
Change(v) ==
    /\ uiReady
    /\ selectValue' = v
    /\ currentLang' = IF Translated(v) THEN v ELSE currentLang
    /\ SetLanguage(v)
    /\ last' = [value |-> v, before |-> <<currentLang, storedLang, urlLang, dir>>]
    /\ UNCHANGED <<translationKeys, navigatorLanguage, uiReady, boot>>

\* The page is not part of the run.
UiOff == UiInitWith({{"en"}}, {}, {"en-US"})

\* ------------------------------------------------------------------------
\* The test runner (anime-poc.test.ts with anime-poc.ts, which it imports)
\* ------------------------------------------------------------------------

\* runAllTests waits this long before printSummary.
RUNNER_WAIT_MS == 100

\* The line of each unit test's runner.test call, in the order of the file.
UnitTestLines == <<149, 163, 173, 180, 188, 197, 205, 215, 239, 251, 261, 277, 287, 298, 304>>

\* The line of the integration test's runner.test call.
IntegrationTestLine == 312

VARIABLES
    loadPc,      \* the statements of the two modules that have been evaluated
    registered,  \* the tests runner.test was called for, in order
    microtasks,  \* the continuations of runner.test that are ready to run, in order
    cont,        \* where the caller of each invocation is: none | awaiting | done
    results,     \* TestRunner.results
    runnerLeft,  \* ms left on the timer of runAllTests, -1 when there is none
    summary,     \* what printSummary printed
    exitCode     \* <<c>> once the process has exited with code c, <<>> before

runnerVars == <<loadPc, registered, microtasks, cont, results, runnerLeft, summary, exitCode>>

NoSummary == [total |-> -1, passed |-> -1, failed |-> -1, tests |-> <<>>]

\* The module evaluation is over once runAllTests() has been called.
Loaded == Len(UnitTestLines) + 3

\* The runner before the modules are evaluated.
RunnerInit ==
    /\ loadPc = 0
    /\ registered = <<>>
    /\ microtasks = <<>>
    /\ cont = [i \in Invocations |-> "none"]
    /\ results = <<>>
    /\ runnerLeft = -1
    /\ summary = NoSummary
    /\ exitCode = <<>>

\* s.includes(sub), for strings.
Includes(s, sub) ==
    \E k \in 1..(Len(s) - Len(sub) + 1) : SubSeq(s, k, k + Len(sub) - 1) = sub

\* x.includes(sub) holds, x being a string.
StrIncludes(x, sub) == x.t = "string" /\ Includes(x.v, sub)

\* s.toLowerCase(), for the role names of this model.
ToLowerCase(s) ==
    CASE s = "Music" -> "music"
      [] s = "Director" -> "director"
      [] s = "Theme Song Arrangement" -> "theme song arrangement"
      [] OTHER -> s

\* arr.find(P)
Find(seq, P(_)) ==
    IF \E k \in 1..Len(seq) : P(seq[k])
    THEN seq[CHOOSE k \in 1..Len(seq) : P(seq[k]) /\ \A j \in 1..(k - 1) : ~P(seq[j])]
    ELSE Undefined

\* The assertions both callers make on the Title, up to the staff check.
CommonAssertions(anime) ==
    LET madhouse == Find(anime.companies.v, LAMBDA c : c.company.name = Str("Madhouse"))
        frierenChar == Find(anime.characters.v,
                            LAMBDA c : StrIncludes(c.character.name, "Frieren"))
        jpVA == Find(frierenChar.voiceActors.v, LAMBDA va : va.language = Str("Japanese"))
    IN  /\ anime.id = Num(FRIEREN_ID)
        /\ StrIncludes(anime.title, "Frieren")
        /\ anime.synopsis.t = "string" /\ Len(anime.synopsis.v) > 50
        /\ madhouse # Undefined /\ madhouse.type = "Studio"
        /\ frierenChar # Undefined /\ frierenChar.role = Str("Main")
        /\ jpVA # Undefined /\ StrIncludes(jpVA.person.name, "Tanezaki")

\* The assertions of the integration test.
IntegrationAssertions(anime) ==
    /\ CommonAssertions(anime)
    /\ \E k \in 1..Len(anime.staff.v) :
          /\ anime.staff.v[k].role.t = "string"
          /\ Includes(ToLowerCase(anime.staff.v[k].role.v), "music")
    /\ Len(anime.themes.v) > 0

\* The assertions of runTest.
PocAssertions(anime) ==
    /\ CommonAssertions(anime)
    /\ \E k \in 1..Len(anime.staff.v) :
          /\ anime.staff.v[k].role = Str("Music")
          /\ anime.staff.v[k].person.name = Str("Evan Call")
    /\ Len(anime.themes.v) > 0

\* error.message.includes('429')
MessageIncludes429(err) ==
    /\ Len(err.message) = 4
    /\ err.message[2] = 429 \/ Includes(err.message[4], "429")

\* No handler is running and no continuation is ready: the event loop takes
\* the next timer or response.
LoopIdle ==
    /\ exitCode = <<>>
    /\ loadPc = Loaded
    /\ microtasks = <<>>
    /\ \A i \in Invocations : ~(cont[i] = "awaiting" /\ mode[i] \in {"returned", "rejected"})

\* import './anime-poc.js': the module calls runTest(), which runs up to its
\* await of getFullAnimeDetails.
ImportPoc ==
    /\ exitCode = <<>>
    /\ loadPc = 0
    /\ Invoke("runTest")
    /\ cont' = [cont EXCEPT !["runTest"] = "awaiting"]
    /\ loadPc' = 1
    /\ UNCHANGED <<registered, microtasks, results, runnerLeft, summary, exitCode>>

\* runner.test(name, fn) of a unit test: fn runs, its assertions hold on the
\* mock data, and the rest of test() waits as a microtask.
RegisterUnitTest ==
    /\ exitCode = <<>>
    /\ loadPc \in 1..Len(UnitTestLines)
    /\ registered' = Append(registered, UnitTestLines[loadPc])
    /\ microtasks' = Append(microtasks, [test |-> UnitTestLines[loadPc], passed |-> TRUE])
    /\ loadPc' = loadPc + 1
    /\ UNCHANGED <<vars, cont, results, runnerLeft, summary, exitCode>>

\* runner.test(name, fn) of the integration test: fn runs up to its await of
\* getFullAnimeDetails.
RegisterIntegrationTest ==
    /\ exitCode = <<>>
    /\ loadPc = Len(UnitTestLines) + 1
    /\ Invoke("integrationTest")
    /\ registered' = Append(registered, IntegrationTestLine)
    /\ cont' = [cont EXCEPT !["integrationTest"] = "awaiting"]
    /\ loadPc' = loadPc + 1
    /\ UNCHANGED <<microtasks, results, runnerLeft, summary, exitCode>>

\* runAllTests(): runs up to its await of the timer.
RunAllTests ==
    /\ exitCode = <<>>
    /\ loadPc = Len(UnitTestLines) + 2
    /\ runnerLeft' = RUNNER_WAIT_MS
    /\ loadPc' = Loaded
    /\ UNCHANGED <<vars, registered, microtasks, cont, results, summary, exitCode>>

\* The rest of test() after `await fn()`: the result is pushed.
RunMicrotask ==
    /\ exitCode = <<>>
    /\ loadPc = Loaded
    /\ microtasks # <<>>
    /\ results' = Append(results, Head(microtasks))
    /\ microtasks' = Tail(microtasks)
    /\ UNCHANGED <<vars, loadPc, registered, cont, runnerLeft, summary, exitCode>>

\* The integration test resumes after getFullAnimeDetails: its assertions
\* run, a rejection whose message includes '429' is swallowed, any other
\* error fails the test; test() pushes the result.
IntegrationResumes ==
    LET i == "integrationTest"
        passed == IF mode[i] = "returned" THEN IntegrationAssertions(result[i])
                  ELSE MessageIncludes429(error[i])
    IN  /\ exitCode = <<>>
        /\ loadPc = Loaded
        /\ microtasks = <<>>
        /\ cont[i] = "awaiting"
        /\ mode[i] \in {"returned", "rejected"}
        /\ cont' = [cont EXCEPT ![i] = "done"]
        /\ results' = Append(results, [test |-> IntegrationTestLine, passed |-> passed])
        /\ UNCHANGED <<vars, loadPc, registered, microtasks, runnerLeft, summary, exitCode>>

\* runTest resumes after getFullAnimeDetails: process.exit(1) on a rejection
\* or a failed assertion.
RunTestResumes ==
    LET i == "runTest"
    IN  /\ exitCode = <<>>
        /\ loadPc = Loaded
        /\ microtasks = <<>>
        /\ cont[i] = "awaiting"
        /\ mode[i] \in {"returned", "rejected"}
        /\ cont' = [cont EXCEPT ![i] = "done"]
        /\ exitCode' = IF mode[i] = "returned" /\ PocAssertions(result[i])
                       THEN exitCode ELSE <<1>>
        /\ UNCHANGED <<vars, loadPc, registered, microtasks, results, runnerLeft, summary>>

\* A response arrives while the loop is idle.
RunnerRespond(i) ==
    /\ LoopIdle
    /\ Respond(i)
    /\ UNCHANGED runnerVars

\* The timer of a sleep fires; the timer of runAllTests was set before any
\* sleep began and is shorter, so it fires first.
RunnerWake(i) ==
    /\ LoopIdle
    /\ runnerLeft # 0
    /\ Wake(i)
    /\ UNCHANGED runnerVars

\* The timer of runAllTests fires: printSummary.
PrintSummary ==
    LET failed == Cardinality({k \in 1..Len(results) : ~results[k].passed})
    IN  /\ LoopIdle
        /\ runnerLeft = 0
        /\ runnerLeft' = -1
        /\ summary' = [total  |-> Len(results),
                       passed |-> Cardinality({k \in 1..Len(results) : results[k].passed}),
                       failed |-> failed,
                       tests  |-> results]
        /\ exitCode' = IF failed > 0 THEN <<1>> ELSE exitCode
        /\ UNCHANGED <<vars, loadPc, registered, microtasks, cont, results>>

\* Time passes while the loop is idle and no timer is due.
RunnerTick ==
    /\ LoopIdle
    /\ runnerLeft # 0
    /\ \A i \in Invocations : ~(mode[i] = "sleeping" /\ sleepLeft[i] = 0)
    /\ Tick
    /\ runnerLeft' = IF runnerLeft < 0 THEN runnerLeft ELSE Max(0, runnerLeft - TickMs)
    /\ UNCHANGED <<loadPc, registered, microtasks, cont, results, summary, exitCode>>

\* Nothing is pending any more: the process ends.
ProcessEnds ==
    /\ LoopIdle
    /\ runnerLeft < 0
    /\ \A i \in Invocations : mode[i] \in {"returned", "rejected"}
    /\ exitCode' = <<0>>
    /\ UNCHANGED <<vars, loadPc, registered, microtasks, cont, results, runnerLeft, summary>>

RunnerSynopsis ==
    "During their decade-long quest to defeat the Demon King, the members of the hero's party forge bonds."

\* The upstream data of the runner's specification.
RunnerUpstreams ==
    {Upstream(Put(BaseAnime, "synopsis", Str(RunnerSynopsis)), BaseChars, s) :
        s \in {BaseStaff, Arr(<<>>), Undefined}}

\* ------------------------------------------------------------------------
\* Specifications
\* ------------------------------------------------------------------------

Init == InitWith(PipelineUpstreams, Invocations) /\ RunnerInit /\ UiOff

Next ==
    \/ \E i \in Invocations : Invoke(i) /\ UNCHANGED <<runnerVars, uiVars>>
    \/ \E i \in Invocations : Respond(i) /\ UNCHANGED <<runnerVars, uiVars>>
    \/ \E i \in Invocations : Wake(i) /\ UNCHANGED <<runnerVars, uiVars>>
    \/ Tick /\ UNCHANGED <<runnerVars, uiVars>>

\* The pipeline: both callers, interleaved.
Spec == Init /\ [][Next]_vars

MapInit == InitWith(MapUpstreams, {"runTest"}) /\ RunnerInit /\ UiOff

\* The mapping: one caller, over all the payloads of the model.
MapSpec == MapInit /\ [][Next]_vars

RunnerSpecInit == InitWith(RunnerUpstreams, Invocations) /\ RunnerInit /\ UiOff

RunnerNext ==
    \/ ImportPoc /\ UNCHANGED uiVars
    \/ RegisterUnitTest /\ UNCHANGED uiVars
    \/ RegisterIntegrationTest /\ UNCHANGED uiVars
    \/ RunAllTests /\ UNCHANGED uiVars
    \/ RunMicrotask /\ UNCHANGED uiVars
    \/ IntegrationResumes /\ UNCHANGED uiVars
    \/ RunTestResumes /\ UNCHANGED uiVars
    \/ \E i \in Invocations : RunnerRespond(i) /\ UNCHANGED uiVars
    \/ \E i \in Invocations : RunnerWake(i) /\ UNCHANGED uiVars
    \/ PrintSummary /\ UNCHANGED uiVars
    \/ RunnerTick /\ UNCHANGED uiVars
    \/ ProcessEnds /\ UNCHANGED uiVars

\* The test file run as a program: the two modules are evaluated, then the
\* event loop runs their continuations, responses and timers.
RunnerSpec == RunnerSpecInit /\ [][RunnerNext]_<<vars, runnerVars>>

UiInit ==
    /\ InitWith({Upstream(BaseAnime, BaseChars, BaseStaff)}, {})
    /\ RunnerInit
    /\ UiInitWith(TranslationSets, LangNames, NavigatorLanguages)

UiNext ==
    \/ DomContentLoaded /\ UNCHANGED <<vars, runnerVars>>
    \/ \E v \in LangNames : Change(v) /\ UNCHANGED <<vars, runnerVars>>

\* The page: the handler runs, then the user changes the select.
UiSpec == UiInit /\ [][UiNext]_uiVars

\* The request invocation i awaits gets its response: the invocation stops
\* awaiting it, to sleep, to return or to reject (the step is Respond(i),
\* the only step of Next that does this).
Settles(i) ==
    /\ mode[i] = "awaiting"
    /\ mode' \in {[mode EXCEPT ![i] = m] : m \in {"sleeping", "returned", "rejected"}}

\* Every request issued gets a response (fetch settles), time passes, and a
\* timer that has run out fires (setTimeout).
Fairness ==
    /\ WF_vars(Tick)
    /\ \A i \in Invocations : WF_mode(Settles(i)) /\ WF_vars(Wake(i))

LiveSpec == Init /\ [][Next]_vars /\ Fairness

\* ------------------------------------------------------------------------
\* Properties
\* ------------------------------------------------------------------------

\* The kinds of the requests in a history, in the order of their issue.
RequestKinds(lg) ==
    LET reqs == SelectSeq(lg, LAMBDA e : e.ev = "request")
    IN  [k \in 1..Len(reqs) |-> reqs[k].kind]

\* The number of entries of kind ev among the first n of a history.
CountEv(lg, ev, n) == Cardinality({k \in 1..n : lg[k].ev = ev})

IsPrefix(p, q) == Len(p) <= Len(q) /\ \A k \in 1..Len(p) : p[k] = q[k]

\* C1: every invocation requests /anime/{id}/full, then /characters, then
\* /staff, each at most once, each for the id it was given, and issues a
\* request only when every earlier request of its own has been answered, so
\* that at most one of its requests is in flight.
C1_SequentialRequests ==
    \A i \in Invocations :
        /\ IsPrefix(RequestKinds(log[i]), <<"full", "characters", "staff">>)
        /\ \A k \in 1..Len(log[i]) :
              log[i][k].ev = "request" =>
                  /\ log[i][k].n = malIds[i]
                  /\ CountEv(log[i], "response", k) = CountEv(log[i], "request", k) - 1
        /\ Cardinality({r \in inflight : r.inv = i}) <= 1

\* One invocation has issued its three requests while the other is between
\* its own.
C1_Witness ==
    \E i, j \in Invocations :
        /\ i # j
        /\ RequestKinds(log[i]) = <<"full", "characters", "staff">>
        /\ mode[i] = "awaiting"
        /\ mode[j] = "awaiting"
        /\ Len(log[j]) > 0

\* C2: once a fetch of an invocation got a non-success status, the invocation
\* has rejected with the error carrying that status and its status text, has
\* returned no Title, and that response is the last entry of its history: no
\* request follows it.
C2_FailureAborts ==
    \A i \in Invocations :
        \A k \in 1..Len(log[i]) :
            (log[i][k].ev = "response" /\ log[i][k].n \notin 200..299) =>
                /\ mode[i] = "rejected"
                /\ error[i].name = "Error"
                /\ error[i].message[2] = log[i][k].n
                /\ error[i].message[4] = StatusText[log[i][k].n]
                /\ result[i] = NoResult
                /\ k = Len(log[i])
                /\ {r \in inflight : r.inv = i} = {}

\* The characters fetch of an invocation got a 429: the staff fetch is not
\* issued.
C2_Witness ==
    \E i \in Invocations :
        /\ mode[i] = "rejected"
        /\ log[i][Len(log[i])] = Ev("response", "characters", 429)
        /\ RequestKinds(log[i]) = <<"full", "characters">>

\* C3: every request of an invocation other than its first is issued at
\* least DELAY_MS after the response to the request before it arrived.
C3_DelayBetweenRequests ==
    \A i \in Invocations :
        /\ Len(gaps[i]) = Max(0, Len(RequestKinds(log[i])) - 1)
        /\ \A k \in 1..Len(gaps[i]) : gaps[i][k] >= DELAY_MS

\* An invocation has issued its staff request, the second that follows another.
C3_Witness ==
    \E i \in Invocations : Len(gaps[i]) = 2 /\ mode[i] = "awaiting"

\* C4 as stated: no delay step occurs after the characters response; the one
\* delay is the one between the metadata fetch and the characters fetch.
C4_NoDelayBeforeStaff ==
    \A i \in Invocations :
        \A k \in 1..Len(log[i]) :
            log[i][k].ev = "sleep" =>
                \A j \in 1..k : ~(log[i][j].ev = "response" /\ log[i][j].kind = "characters")

\* C4, amended: the staff request is not issued directly after the characters
\* response: a delay step of DELAY_MS stands between them in the history, as
\* one stands between the metadata response and the characters request.
C4_DelayStepBeforeStaff ==
    \A i \in Invocations :
        \A k \in 1..Len(log[i]) :
            (log[i][k].ev = "request" /\ log[i][k].kind # "full") =>
                /\ k > 2
                /\ log[i][k - 1] = Ev("sleep", "", DELAY_MS)
                /\ log[i][k - 2].ev = "response"
                /\ log[i][k - 2].kind =
                      (IF log[i][k].kind = "staff" THEN "characters" ELSE "full")

\* The staff request of an invocation has been issued.
C4_Witness ==
    \E i \in Invocations :
        \E k \in 1..Len(log[i]) : log[i][k] = Ev("request", "staff", malIds[i])

Returned == {i \in Invocations : mode[i] = "returned"}

\* The field of a Title that carries the raw metadata field f.
TitleField(title, f) ==
    CASE f = "title_english"  -> title.titleEnglish
      [] f = "title_japanese" -> title.titleJapanese
      [] f = "type"           -> title.type
      [] f = "status"         -> title.status
      [] f = "episodes"       -> title.episodes
      [] f = "duration"       -> title.duration
      [] f = "rating"         -> title.rating
      [] f = "source"         -> title.source
      [] f = "synopsis"       -> title.synopsis
      [] f = "background"     -> title.background
      [] f = "images"         -> title.mainPicture
      [] f = "score"          -> title.stats.score
      [] f = "rank"           -> title.stats.ranked
      [] f = "popularity"     -> title.stats.popularity
      [] f = "members"        -> title.stats.members
      [] f = "favorites"      -> title.stats.favorites
      [] f = "string"         -> title.airedString
      [] f = "from"           -> title.airedFrom
      [] f = "to"             -> title.airedTo

\* Whether the metadata payload a lacks aired.f.
AiredLacks(a, f) ==
    \/ "aired" \notin DOMAIN a.v
    \/ (a.v["aired"].t = "object" /\ f \notin DOMAIN a.v["aired"].v)

\* C5: in a returned Title, the field of every optional scalar that the
\* metadata payload lacks (at the top level, or under aired) is null.
C5_NullPropagation ==
    \A i \in Returned :
        /\ \A f \in TopScalars :
              f \notin DOMAIN raw[i]["full"].v => TitleField(result[i], f) = Null
        /\ \A f \in {"string", "from", "to"} :
              AiredLacks(raw[i]["full"], f) => TitleField(result[i], f) = Null

\* The entry of Title.companies for the raw organization p under role tag.
CompanyEntry(p, tag) ==
    [company |-> [id |-> p.v["mal_id"], name |-> p.v["name"]], type |-> tag]

\* C6: the companies of a returned Title are the raw producers as Producer,
\* then the raw licensors as Licensor, then the raw studios as Studio, each
\* list in its input order with its ids and names: as many entries as the
\* three lists hold together, an organization in several lists once per list.
C6_CompaniesOrder ==
    \A i \in Returned :
        LET P == raw[i]["full"].v["producers"].v
            L == raw[i]["full"].v["licensors"].v
            S == raw[i]["full"].v["studios"].v
            c == result[i].companies.v
        IN  /\ Len(c) = Len(P) + Len(L) + Len(S)
            /\ \A k \in 1..Len(P) : c[k] = CompanyEntry(P[k], "Producer")
            /\ \A k \in 1..Len(L) : c[Len(P) + k] = CompanyEntry(L[k], "Licensor")
            /\ \A k \in 1..Len(S) : c[Len(P) + Len(L) + k] = CompanyEntry(S[k], "Studio")

\* A Title was returned in which one organization is a producer, a licensor
\* and a studio at once, the licensors and the studios not being the same list.
C6_Witness ==
    \E i \in Returned :
        LET c == result[i].companies.v
        IN  /\ \E x, y, z \in 1..Len(c) :
                  /\ c[x].company = c[y].company /\ c[y].company = c[z].company
                  /\ c[x].type = "Producer" /\ c[y].type = "Licensor" /\ c[z].type = "Studio"
            /\ raw[i]["full"].v["licensors"] # raw[i]["full"].v["studios"]

\* The number of position labels of the first n entries of a raw staff list.
RECURSIVE PositionsBefore(_, _)
PositionsBefore(S, n) ==
    IF n = 0 THEN 0 ELSE PositionsBefore(S, n - 1) + Len(S[n].v["positions"].v)

\* The image URL a raw person carries, null when it carries none.
RawImage(x) ==
    IF "images" \in DOMAIN x.v THEN x.v["images"].v["jpg"].v["image_url"] ELSE Null

\* C7: the staff of a returned Title holds, for each raw entry in input
\* order, one entry per position label of it, consecutive and in the order
\* of the labels, all with the raw person's id, name and image:
\* as many entries as there are position labels in all.
C7_StaffFlattening ==
    \A i \in Returned :
        LET S  == raw[i]["staff"].v
            st == result[i].staff.v
        IN  /\ Len(st) = PositionsBefore(S, Len(S))
            /\ \A e \in 1..Len(S) :
                  \A p \in 1..Len(S[e].v["positions"].v) :
                      LET x == st[PositionsBefore(S, e - 1) + p]
                      IN  /\ x.role = S[e].v["positions"].v[p]
                          /\ x.person.id = S[e].v["person"].v["mal_id"]
                          /\ x.person.name = S[e].v["person"].v["name"]
                          /\ x.person.image = RawImage(S[e].v["person"])

\* A Title was returned for a staff payload of an entry with two position
\* labels followed by an entry of another person.
C7_Witness ==
    \E i \in Returned :
        LET S == raw[i]["staff"].v
        IN  /\ Len(S) = 2
            /\ Len(S[1].v["positions"].v) = 2
            /\ Len(S[2].v["positions"].v) = 1
            /\ S[1].v["person"] # S[2].v["person"]
            /\ Len(result[i].staff.v) = 3

\* C9: the id of a returned Title is the mal_id of the metadata payload,
\* whatever the characters and staff payloads are.
C9_IdPreserved ==
    \A i \in Returned : result[i].id = upstream["full"].v["mal_id"]

\* A Title was returned whose metadata payload carries another id than the
\* one asked for, with a characters payload of two entries.
C9_Witness ==
    \E i \in Returned :
        /\ upstream["full"].v["mal_id"] # Num(malIds[i])
        /\ Len(upstream["characters"].v) = 2

\* The list under theme.f of a metadata payload, empty when the theme or
\* the list is missing.
RawThemeList(a, f) ==
    IF "theme" \notin DOMAIN a.v THEN <<>>
    ELSE IF a.v["theme"].t # "object" THEN <<>>
    ELSE IF f \notin DOMAIN a.v["theme"].v THEN <<>>
    ELSE IF a.v["theme"].v[f].t # "array" THEN <<>>
    ELSE a.v["theme"].v[f].v

\* C10: the themes of a returned Title are the raw openings as Opening, in
\* input order, then the raw endings as Ending, in input order, a missing
\* theme object or list counting as empty; and no invocation whose metadata
\* payload differs from a complete one in its theme only fails to return.
C10_Themes ==
    /\ \A i \in Returned :
          LET O == RawThemeList(raw[i]["full"], "openings")
              E == RawThemeList(raw[i]["full"], "endings")
              t == result[i].themes.v
          IN  /\ Len(t) = Len(O) + Len(E)
              /\ \A k \in 1..Len(O) : t[k] = [type |-> "Opening", text |-> O[k]]
              /\ \A k \in 1..Len(E) : t[Len(O) + k] = [type |-> "Ending", text |-> E[k]]
    /\ \A i \in Invocations :
          (error[i] = TypeError /\ upstream["characters"] = BaseChars
                                /\ upstream["staff"] = BaseStaff) =>
              Without(upstream["full"], {"theme"}) # Without(BaseAnime, {"theme"})

\* A Title was returned for a payload with endings and no openings list.
C10_Witness ==
    \E i \in Returned :
        /\ "theme" \in DOMAIN raw[i]["full"].v
        /\ raw[i]["full"].v["theme"].t = "object"
        /\ "openings" \notin DOMAIN raw[i]["full"].v["theme"].v
        /\ Len(RawThemeList(raw[i]["full"], "endings")) = 2
        /\ Len(result[i].themes.v) = 2

\* The relation groups of a metadata payload, none when the list is missing.
RawRelations(a) ==
    IF "relations" \notin DOMAIN a.v THEN <<>>
    ELSE IF a.v["relations"].t # "array" THEN <<>>
    ELSE a.v["relations"].v

\* The entries of a relation group whose type is 'anime', in input order.
AnimeEntries(g) == SelectSeq(g.v["entry"].v, LAMBDA e : e.v["type"] = Str("anime"))

\* The number of 'anime' entries in the first n relation groups.
RECURSIVE AnimeBefore(_, _)
AnimeBefore(R, n) ==
    IF n = 0 THEN 0 ELSE AnimeBefore(R, n - 1) + Len(AnimeEntries(R[n]))

\* C11: the relatedEntries of a returned Title hold, group after group and
\* entry after entry, one (relation label, id, name) for each raw entry
\* whose type is 'anime' and nothing else; and no invocation whose metadata
\* payload differs from a complete one in its relations only (the list
\* missing included) fails to return.
C11_RelatedEntries ==
    /\ \A i \in Returned :
          LET R  == RawRelations(raw[i]["full"])
              re == result[i].relatedEntries.v
          IN  /\ Len(re) = AnimeBefore(R, Len(R))
              /\ \A g \in 1..Len(R) :
                    \A k \in 1..Len(AnimeEntries(R[g])) :
                        re[AnimeBefore(R, g - 1) + k] =
                            [relationType      |-> R[g].v["relation"],
                             relatedAnimeId    |-> AnimeEntries(R[g])[k].v["mal_id"],
                             relatedAnimeTitle |-> AnimeEntries(R[g])[k].v["name"]]
    /\ \A i \in Invocations :
          (error[i] = TypeError /\ upstream["characters"] = BaseChars
                                /\ upstream["staff"] = BaseStaff) =>
              Without(upstream["full"], {"relations"}) # Without(BaseAnime, {"relations"})

\* A Title was returned for two relation groups, the first of a manga then
\* an anime: its one related entry per anime entry is listed, the manga not.
C11_Witness ==
    \E i \in Returned :
        LET R == RawRelations(raw[i]["full"])
        IN  /\ Len(R) = 2
            /\ Len(R[1].v["entry"].v) = 2
            /\ R[1].v["entry"].v[1].v["type"] = Str("manga")
            /\ R[1].v["entry"].v[2].v["type"] = Str("anime")
            /\ Len(AnimeEntries(R[2])) = 1
            /\ R[1].v["relation"] # R[2].v["relation"]
            /\ Len(result[i].relatedEntries.v) = 2

\* The collections of a Title.
Collections == {"genres", "companies", "themes", "relatedEntries", "characters", "staff"}

\* C12: whatever the upstream payloads lack, the mapping raises no error,
\* and every collection of a returned Title is a list.
C12_CollectionsPresent ==
    \A i \in Invocations :
        /\ error[i] # TypeError
        /\ mode[i] = "returned" => \A f \in Collections : result[i][f].t = "array"

Finished(i) == mode[i] \in {"returned", "rejected"}

\* C13: an invocation that has started eventually finishes, by returning a
\* Title or by rejecting with an error, when responses arrive and delays
\* elapse; an invocation is never in any other final condition.
C13_EventuallyFinishes ==
    \A i \in Invocations :
        /\ (mode[i] \in {"awaiting", "sleeping"}) ~> Finished(i)
        /\ [](mode[i] \in {"idle", "awaiting", "sleeping", "returned", "rejected"})
        /\ [](Finished(i) => [](Finished(i) /\ (mode[i] = "returned" <=> result[i] # NoResult)
                                            /\ (mode[i] = "rejected" <=> error[i] # NoError)))

C13_Witness ==
    \E i, j \in Invocations :
        /\ mode[i] = "returned" /\ CountEv(log[i], "sleep", Len(log[i])) = 2 /\ result[i] # NoResult
        /\ mode[j] = "rejected" /\ error[j] # NoError /\ pc[j] = 3

\* C14: when printSummary runs, every test registered with runner.test has
\* pushed exactly one result, so the totals printed count all of them; and
\* a process that ends with code 0 has no failed test.
C14_SummaryCoversAllTests ==
    summary # NoSummary =>
        /\ summary.total = Len(registered)
        /\ \A r \in 1..Len(registered) :
              Cardinality({k \in 1..Len(summary.tests) :
                              summary.tests[k].test = registered[r]}) = 1
        /\ exitCode = <<0>> => \A k \in 1..Len(results) : results[k].passed

\* The language the claim has the page start in: the URL parameter if
\* supported, else the stored one if supported, else the browser's (its
\* two-letter code) if supported, else 'en'.
ClaimedInitialLang ==
    IF boot.param # Null /\ boot.param.v \in translationKeys THEN boot.param.v
    ELSE IF boot.stored # Null /\ boot.stored.v \in translationKeys THEN boot.stored.v
    ELSE IF Slice2(navigatorLanguage) \in translationKeys THEN Slice2(navigatorLanguage)
    ELSE "en"

\* C15: the page starts in the first supported language among the URL
\* parameter, the stored language and the browser language, 'en' otherwise;
\* from then on currentLang is a key of translations, the stored language
\* and the URL parameter equal it, the direction is 'rtl' exactly for 'ar',
\* and a change to an unsupported language changes none of these.
C15_Localization ==
    uiReady =>
        /\ boot.lang = ClaimedInitialLang
        /\ currentLang \in translationKeys
        /\ storedLang = Str(currentLang)
        /\ urlLang = Str(currentLang)
        /\ dir = "rtl" <=> currentLang = "ar"
        /\ (last # NoChange /\ last.value \notin translationKeys) =>
              <<currentLang, storedLang, urlLang, dir>> = last.before

====
